---- MODULE Spec2Model ----
(***************************************************************************)
(* A model of erd (src/erd.py): the Path Filter, the gitignore rule        *)
(* engine (GitignoreParser, find_git_toplevel) and the tree walk.          *)
(*                                                                         *)
(* Strings are sequences of one-character strings, so that rstrip,         *)
(* endswith, fnmatch and Python's string order are computed and not        *)
(* assumed.  A path is held as the sequence of its components below the    *)
(* directory the run starts in; a component (a base name) is a string.     *)
(***************************************************************************)
EXTENDS Naturals, Sequences, FiniteSets

VARIABLES
    dirs,       \* filesystem: the paths that are directories
    files,      \* filesystem: the paths that are not directories
    include,    \* PathFilter.include: a list of PathMatch
    exclude,    \* PathFilter.exclude: a list of PathMatch
    gitignore,  \* PathFilter.gitignore: None or a GitignoreParser (its id)
    stack,      \* tree_walk: the suspended generator calls, innermost first
    out,        \* the lines tree() has yielded so far
    status,     \* "idle", "walking", "done", or "error" (an exception left tree())
    listing,    \* the list Entity.children() returned last
    failed,     \* <<e>> for the entity e whose children() raised, else <<>>
    lastFilter, \* the last direct PathFilter.__call__: its entity and what it
                \* returned, if no rule was added since
    cls_ignore_rules,  \* GitignoreParser.ignore_rules, the class attribute
    cls_negate_rules,  \* GitignoreParser.negate_rules, the class attribute
    parsers,    \* the GitignoreParser instances: their instance attributes
    ruleFiles,  \* disk: the .gitignore of each directory
    defaultFile,\* disk: $XDG_CONFIG_HOME/git/gitignore
    added,      \* history: the rules each instance was given through _add_rule
    lastCall,   \* the last parse_rule_file(s) call and the exception it raised
    lastMatch,  \* the last direct GitignoreParser.match call and what it
                \* returned, if no rule was added since
    calls,      \* number of parse_rule_file(s) calls made
    cwd,        \* root search: the depth of the working directory below "/"
    markers,    \* root search: the depths of the directories that hold a .git
    cur_base_dir, \* root search: base_dir of the innermost find_git_toplevel
    call_depth, \* root search: the number of find_git_toplevel calls on the stack
    start_dir,  \* root search: the directory main passed to make_ignore_parser
    toplevel    \* root search: "idle", "searching", what find_git_toplevel
                \* returned, or "RecursionError"

None == "None"

----------------------------------------------------------------------------
(* Bounds of the model.                                                    *)

\* Depth of the filesystem below the start directory.
MaxDepth == 2

\* Number of parse_rule_file / parse_rule_files calls in one run.
MaxCalls == 2

\* Length of the path string a root search starts from.
MaxPathLen == 3

----------------------------------------------------------------------------
(* Strings.                                                                *)

\* Code points of the characters the model uses (Python compares strings
\* by code point).
CharCode(c) ==
    CASE c = "!" -> 33
      [] c = "#" -> 35
      [] c = "*" -> 42
      [] c = "." -> 46
      [] c = "/" -> 47
      [] c = "?" -> 63
      [] c = "a" -> 97
      [] c = "b" -> 98

RECURSIVE StrLess(_, _)
\* s < t for Python strings.
StrLess(s, t) ==
    IF t = <<>> THEN FALSE
    ELSE IF s = <<>> THEN TRUE
    ELSE IF Head(s) # Head(t) THEN CharCode(Head(s)) < CharCode(Head(t))
    ELSE StrLess(Tail(s), Tail(t))

RECURSIVE rstrip(_, _)
\* str.rstrip(c)
rstrip(s, c) ==
    IF s # <<>> /\ s[Len(s)] = c THEN rstrip(SubSeq(s, 1, Len(s) - 1), c) ELSE s

\* str.endswith(c)
endswith(s, c) == s # <<>> /\ s[Len(s)] = c

RECURSIVE fnmatch(_, _)
\* fnmatch.fnmatch(name, pattern) for patterns of literals, "*" and "?".
fnmatch(name, pat) ==
    IF pat = <<>> THEN name = <<>>
    ELSE IF Head(pat) = "*"
         THEN fnmatch(name, Tail(pat)) \/ (name # <<>> /\ fnmatch(Tail(name), pat))
    ELSE IF name = <<>> THEN FALSE
    ELSE (Head(pat) = "?" \/ Head(pat) = Head(name)) /\ fnmatch(Tail(name), Tail(pat))

----------------------------------------------------------------------------
(* The filesystem.                                                         *)

\* The base names a directory entry can have.
Names == { <<"a">>, <<"a", "b">> }

\* The entity tree() is started on.
Root == <<>>

Parent(p) == SubSeq(p, 1, Len(p) - 1)

IsPrefix(p, q) == Len(p) <= Len(q) /\ SubSeq(q, 1, Len(p)) = p

EmptyTree == [d |-> {}, f |-> {}]

RECURSIVE TreesAt(_, _)
\* Every filesystem tree rooted at path p with at most k levels below it.
TreesAt(p, k) ==
    LET Opt(c) == IF k = 0 THEN {EmptyTree} ELSE {EmptyTree} \cup TreesAt(c, k - 1)
        ca == Append(p, <<"a">>)
        cb == Append(p, <<"a", "b">>)
    IN  {[d |-> {}, f |-> {p}]}
        \cup {[d |-> {p} \cup x.d \cup y.d, f |-> x.f \cup y.f] :
                 x \in Opt(ca), y \in Opt(cb)}

\* os.lstat + stat.S_ISDIR
S_ISDIR(p) == p \in dirs

\* os.listdir(p): the entries of directory p (in no particular order).
listdir(p) == {c \in dirs \cup files : c # Root /\ Parent(c) = p}

----------------------------------------------------------------------------
(* Entity                                                                  *)

\* Entity.basename: os.path.split(path)[1].  The start entity is printed by
\* its path, written "." here.
basename(e) == IF e = Root THEN <<".">> ELSE e[Len(e)]

\* The sort key of Entity.children: (S_ISDIR(st_mode), basename), compared
\* as Python compares tuples, with False < True.
ChildKeyLess(x, y) ==
    \/ ~S_ISDIR(x) /\ S_ISDIR(y)
    \/ S_ISDIR(x) = S_ISDIR(y) /\ StrLess(basename(x), basename(y))

RECURSIVE SortChildren(_)
\* list.sort by the key above; sibling keys are distinct.
SortChildren(S) ==
    IF S = {} THEN <<>>
    ELSE LET m == CHOOSE x \in S : \A y \in S \ {x} : ChildKeyLess(x, y)
         IN  <<m>> \o SortChildren(S \ {m})

\* Entity.children(): [] for a non-directory, else the sorted entries.
children(e) == IF ~S_ISDIR(e) THEN <<>> ELSE SortChildren(listdir(e))

\* Entity.format(): the decorated name, "/" appended to a directory.
format(e) == basename(e) \o (IF S_ISDIR(e) THEN <<"/">> ELSE <<>>)

----------------------------------------------------------------------------
(* GitignoreParser                                                         *)

ParserIds == {"p1", "p2"}

\* The directories that can hold a .gitignore.
RuleDirs == { Root, << <<"a">> >> }

\* An igittigitt IgnoreRule: the glob of a git pattern declared in base.
Rule(base, pat, neg) == [base |-> base, pat |-> pat, neg |-> neg]

\* igittigitt.get_rules_from_git_pattern: no rule for a blank or a comment
\* line, a negation rule for "!pattern".
get_rules_from_git_pattern(line, base_dir) ==
    IF line = <<>> \/ Head(line) = "#" THEN <<>>
    ELSE IF Head(line) = "!" THEN <<Rule(base_dir, Tail(line), TRUE)>>
    ELSE <<Rule(base_dir, line, FALSE)>>

\* The regex wcmatch.glob.translate makes of rule.pattern_glob matches path:
\* a slash-free git pattern matches an entry of that name at any depth
\* below its base directory, and everything below such an entry.
\* An exclusion pattern (exclude=) is translated the same way: its regex
\* matches the paths the negation rule names, which is how match reads it.
RuleMatches(rule, path) ==
    /\ IsPrefix(rule.base, path)
    /\ \E i \in (Len(rule.base) + 1)..Len(path) : fnmatch(path[i], rule.pat)

RECURSIVE PathStr(_)
\* The components of a path, each followed by "/".
PathStr(p) == IF p = <<>> THEN <<>> ELSE Head(p) \o <<"/">> \o PathStr(Tail(p))

\* IgnoreRule is ordered by its glob.
RuleLess(r1, r2) == StrLess(PathStr(r1.base) \o r1.pat, PathStr(r2.base) \o r2.pat)

Range(s) == {s[i] : i \in 1..Len(s)}

RECURSIVE SortRules(_)
\* sorted(set(rules))
SortRules(S) ==
    IF S = {} THEN <<>>
    ELSE LET m == CHOOSE x \in S : \A y \in S \ {x} : RuleLess(x, y)
         IN  <<m>> \o SortRules(S \ {m})

\* The objects GitignoreParser's methods read and write.
Heap ==
    [ci |-> cls_ignore_rules, cn |-> cls_negate_rules, ps |-> parsers, added |-> added]

\* A GitignoreParser instance.  own: whether ignore_rules and negate_rules are
\* set on the instance (else the lookup finds the class attributes);
\* compiled: whether _patterns is set, to the alternatives pat_ignore and
\* pat_negate.
Parser(own, ig, ng, compiled, pig, png) ==
    [own |-> own, ignore_rules |-> ig, negate_rules |-> ng,
     compiled |-> compiled, pat_ignore |-> pig, pat_negate |-> png]

\* self.ignore_rules / self.negate_rules as Python looks them up.
ignore_rules(H, p) == IF H.ps[p].own THEN H.ps[p].ignore_rules ELSE H.ci

negate_rules(H, p) == IF H.ps[p].own THEN H.ps[p].negate_rules ELSE H.cn

\* GitignoreParser._compile_patterns: the two lists become instance
\* attributes; a compiled pattern is held as the list of its alternatives.
_compile_patterns(H, p) ==
    LET ig == SortRules(Range(ignore_rules(H, p)))
        ng == SortRules(Range(negate_rules(H, p)))
    IN  [H EXCEPT !.ps[p] = Parser(TRUE, ig, ng, TRUE, ig, ng)]

\* self._patterns or self._compile_patterns(): the heap after it.
Compiled(H, p) == IF H.ps[p].compiled THEN H ELSE _compile_patterns(H, p)

\* re.match("|".join(alts), path): the join of no alternative is the empty
\* pattern, which matches every string.
RegexMatch(alts, path) ==
    alts = <<>> \/ \E i \in 1..Len(alts) : RuleMatches(alts[i], path)

\* GitignoreParser.match: the value it returns.
match(H, p, path) ==
    LET pats == Compiled(H, p).ps[p]
    IN  IF RegexMatch(pats.pat_ignore, path) THEN ~RegexMatch(pats.pat_negate, path)
        ELSE FALSE

\* GitignoreParser._add_rule: append mutates the list the lookup finds.
_add_rule(H, p, rule) ==
    LET H1 == [H EXCEPT !.ps[p].compiled = FALSE, !.ps[p].pat_ignore = <<>>,
                        !.ps[p].pat_negate = <<>>, !.added[p] = @ \cup {rule}]
    IN  IF rule.neg
        THEN IF H1.ps[p].own
             THEN [H1 EXCEPT !.ps[p].negate_rules = Append(@, rule)]
             ELSE [H1 EXCEPT !.cn = Append(@, rule)]
        ELSE IF H1.ps[p].own
             THEN [H1 EXCEPT !.ps[p].ignore_rules = Append(@, rule)]
             ELSE [H1 EXCEPT !.ci = Append(@, rule)]

RECURSIVE AddRules(_, _, _)
\* for rule in rules: self._add_rule(rule)
AddRules(H, p, rules) ==
    IF rules = <<>> THEN H ELSE AddRules(_add_rule(H, p, Head(rules)), p, Tail(rules))

RECURSIVE AddLines(_, _, _, _)
\* for line in f: ...
AddLines(H, p, lines, base_dir) ==
    IF lines = <<>> THEN H
    ELSE AddLines(AddRules(H, p, get_rules_from_git_pattern(Head(lines), base_dir)),
                  p, Tail(lines), base_dir)

\* A rule file is named by the directory it lies in, or Default.
\* On disk a file is absent, denied (no read permission) or readable ("ok")
\* with its lines.
File(state, lines) == [state |-> state, lines |-> lines]

Default == << <<"default">> >>

FileAt(file) == IF file = Default THEN defaultFile ELSE ruleFiles[file]

Returned(H) == [h |-> H, exc |-> None]
Raised(H, e) == [h |-> H, exc |-> e]

\* GitignoreParser.parse_rule_file: open() raises for a missing or an
\* unreadable file.
parse_rule_file(H, p, file, base_dir) ==
    IF FileAt(file).state = "absent" THEN Raised(H, "FileNotFoundError")
    ELSE IF FileAt(file).state = "denied" THEN Raised(H, "PermissionError")
    ELSE Returned(AddLines(H, p, FileAt(file).lines, base_dir))

\* The path glob.glob returns for the .gitignore of directory d, below top.
RuleFilePath(d) == PathStr(d) \o <<".">>

RECURSIVE SortFiles(_)
SortFiles(S) ==
    IF S = {} THEN <<>>
    ELSE LET m == CHOOSE x \in S :
                     \A y \in S \ {x} : StrLess(RuleFilePath(x), RuleFilePath(y))
         IN  <<m>> \o SortFiles(S \ {m})

\* sorted(glob.glob(f"{base_dir}/**/.gitignore", recursive=True))
rule_files(base_dir) ==
    SortFiles({d \in RuleDirs : ruleFiles[d].state # "absent" /\ IsPrefix(base_dir, d)})

RECURSIVE LoadRuleFiles(_, _, _)
\* for rule_file in rule_files: self.match(rule_file); self.parse_rule_file(rule_file)
LoadRuleFiles(H, p, fs) ==
    IF fs = <<>> THEN Returned(H)
    ELSE LET r == parse_rule_file(Compiled(H, p), p, Head(fs), Head(fs))
         IN  IF r.exc # None THEN r ELSE LoadRuleFiles(r.h, p, Tail(fs))

\* try: parse_rule_file(default_rule_file) except FileNotFoundError: pass
HandleDefault(r, H) == IF r.exc = "FileNotFoundError" THEN Returned(H) ELSE r

\* GitignoreParser.parse_rule_files
parse_rule_files(H, p, base_dir, add_default_patterns) ==
    LET r0 == IF add_default_patterns
              THEN HandleDefault(parse_rule_file(H, p, Default, base_dir), H)
              ELSE Returned(H)
    IN  IF r0.exc # None THEN r0
        ELSE LoadRuleFiles(r0.h, p, rule_files(base_dir))

----------------------------------------------------------------------------
(* PathMatch and PathFilter                                                *)

\* PathMatch.__init__
PathMatch(expression) ==
    [pattern |-> rstrip(expression, "/"), is_dir |-> endswith(expression, "/")]

\* PathMatch.__call__
PathMatchCall(pm, e) ==
    IF pm.is_dir /\ ~S_ISDIR(e) THEN FALSE ELSE fnmatch(basename(e), pm.pattern)

\* any(pmatch(entity) for pmatch in patterns)
AnyMatch(patterns, e) == \E i \in 1..Len(patterns) : PathMatchCall(patterns[i], e)

\* if retain and self.gitignore: retain = not self.gitignore.match(entity.path)
\* (a GitignoreParser is always true: it defines neither __bool__ nor __len__)
IgnoreStage(retain, g, H, e) ==
    IF retain /\ g # None THEN ~match(H, g, e) ELSE retain

\* retain after the include and the exclude stage of PathFilter.__call__
FirstStages(inc, exc, e) ==
    LET r0 == TRUE
        r1 == IF inc # <<>> THEN AnyMatch(inc, e) ELSE r0
    IN  IF r1 /\ exc # <<>> THEN ~AnyMatch(exc, e) ELSE r1

\* A slip: an entity an include pattern matched skips the ignore stage.
PathFilter_IncludeRescues(inc, exc, g, H, e) ==
    IF inc # <<>> /\ AnyMatch(inc, e) THEN FirstStages(inc, exc, e)
    ELSE IgnoreStage(FirstStages(inc, exc, e), g, H, e)

\* PathFilter.__call__: the value it returns.
PathFilter(inc, exc, g, H, e) == IgnoreStage(FirstStages(inc, exc, e), g, H, e)

\* PathFilter.__call__: the heap after it (match compiles on first use).
PathFilterHeap(inc, exc, g, H, e) ==
    IF FirstStages(inc, exc, e) /\ g # None THEN Compiled(H, g) ELSE H

RECURSIVE SelectKept(_)
\* [c for c in entity.children() if filter(c)]
SelectKept(s) ==
    IF s = <<>> THEN <<>>
    ELSE (IF PathFilter(include, exclude, gitignore, Heap, Head(s))
          THEN <<Head(s)>> ELSE <<>>)
         \o SelectKept(Tail(s))

RECURSIVE HeapAfterFilter(_, _)
\* The heap after filter(c) was called on each c of s.
HeapAfterFilter(H, s) ==
    IF s = <<>> THEN H
    ELSE HeapAfterFilter(PathFilterHeap(include, exclude, gitignore, H, Head(s)), Tail(s))

----------------------------------------------------------------------------
(* tree_walk                                                               *)

\* The connectors and prefix segments of erd.py lines 255-260 (box-drawing
\* characters in the source, written in ASCII here).  A prefix or an indent is
\* the sequence of its four-character segments; the empty string is <<>>.
Tee   == "|-- "
Elbow == "+-- "
Blank == "    "
Bar   == "|   "

Frame(e, anc, prefix, indent, last) ==
    [entity |-> e, ancestors |-> anc, prefix |-> prefix, indent |-> indent,
     last_sibling |-> last]

RECURSIVE AncestorsText(_)
\* for ancestor in ancestors: line += ancestor.format().rstrip("/"); line += "/"
AncestorsText(anc) ==
    IF anc = <<>> THEN <<>>
    ELSE rstrip(format(Head(anc)), "/") \o <<"/">> \o AncestorsText(Tail(anc))

\* The line tree_walk yields: prefix + indent + the ancestors + entity.format().
\* The parts are kept apart (the printed line is their concatenation); entity
\* and ancestors record which call yielded it.
Line(f) ==
    [prefix |-> f.prefix, indent |-> f.indent,
     text |-> AncestorsText(f.ancestors) \o format(f.entity),
     entity |-> f.entity, ancestors |-> f.ancestors]

\* A slip: the entity is not appended to the ancestor chain.
CollapseAncestors_NoAppend(anc, e) == anc

\* ancestors.append(entity) before the recursion into the only child.
CollapseAncestors(anc, e) == Append(anc, e)

\* A slip: the guard "if prefix or indent" is dropped.
ExtendPrefix_NoGuard(prefix, indent, last) ==
    Append(prefix, IF last THEN Blank ELSE Bar)

\* if prefix or indent: prefix += Blank if last_sibling else Bar
ExtendPrefix(prefix, indent, last) ==
    IF prefix # <<>> \/ indent # <<>>
    THEN Append(prefix, IF last THEN Blank ELSE Bar)
    ELSE prefix

\* The calls for children[:-1] and children[-1:], in order.
ChildFrames(kept, prefix) ==
    [i \in 1..Len(kept) |->
        IF i < Len(kept) THEN Frame(kept[i], <<>>, prefix, <<Tee>>, FALSE)
        ELSE Frame(kept[i], <<>>, prefix, <<Elbow>>, TRUE)]

fsVars     == <<dirs, files>>
filterVars == <<include, exclude, gitignore>>
walkVars   == <<stack, out, status, listing, failed>>
heapVars   == <<cls_ignore_rules, cls_negate_rules, parsers, added>>
diskVars   == <<ruleFiles, defaultFile>>
callVars   == <<lastCall, lastMatch, calls>>
rootVars   == <<cwd, markers, start_dir, cur_base_dir, call_depth, toplevel>>

vars == <<fsVars, filterVars, walkVars, heapVars, diskVars, callVars, rootVars,
          lastFilter>>

\* The heap becomes H.
SetHeap(H) ==
    /\ cls_ignore_rules' = H.ci
    /\ cls_negate_rules' = H.cn
    /\ parsers' = H.ps
    /\ added' = H.added

\* No walk has started.
WalkIdle ==
    /\ stack = <<>> /\ out = <<>> /\ status = "idle"
    /\ listing = <<>> /\ failed = <<>>

Call(op, p, arg, exc) == [op |-> op, p |-> p, arg |-> arg, exc |-> exc]
NoCall == Call("none", None, <<>>, None)

Matched(p, path, result) == [p |-> p, path |-> path, result |-> result]
NoMatch == Matched(None, <<>>, FALSE)

Filtered(called, e, retain) == [called |-> called, entity |-> e, retain |-> retain]
NoFilter == Filtered(FALSE, <<>>, FALSE)

Search(state, value) == [state |-> state, value |-> value]

\* The class attributes as the class statement leaves them, and instances
\* GitignoreParser() has just made.
HeapFresh ==
    /\ cls_ignore_rules = <<>>
    /\ cls_negate_rules = <<>>
    /\ parsers = [p \in ParserIds |-> Parser(FALSE, <<>>, <<>>, FALSE, <<>>, <<>>)]
    /\ added = [p \in ParserIds |-> {}]
    /\ lastCall = NoCall /\ lastMatch = NoMatch /\ calls = 0

\* No rule file anywhere.
DiskEmpty ==
    /\ ruleFiles = [d \in RuleDirs |-> File("absent", <<>>)]
    /\ defaultFile = File("absent", <<>>)

\* No root search has started.
RootIdle ==
    /\ cwd = 0 /\ markers = {} /\ start_dir = <<>> /\ cur_base_dir = <<>>
    /\ call_depth = 0
    /\ toplevel = Search("idle", <<>>)

----------------------------------------------------------------------------
(* The walk: tree() on one start entity.                                   *)

\* The filters the walk is run with: none, exclude "ab", exclude "a/".
WalkFilters ==
    { [inc |-> <<>>, exc |-> <<>>],
      [inc |-> <<>>, exc |-> <<PathMatch(<<"a", "b">>)>>],
      [inc |-> <<>>, exc |-> <<PathMatch(<<"a", "/">>)>>] }

InitWalk ==
    /\ \E t \in TreesAt(Root, MaxDepth) : dirs = t.d /\ files = t.f
    /\ \E flt \in WalkFilters : include = flt.inc /\ exclude = flt.exc
    /\ gitignore = None
    /\ lastFilter = NoFilter
    /\ WalkIdle /\ HeapFresh /\ DiskEmpty /\ RootIdle

\* tree(entity, filter): the first call of tree_walk.
Tree ==
    /\ status = "idle"
    /\ stack' = <<Frame(Root, <<>>, <<>>, <<>>, TRUE)>>
    /\ status' = "walking"
    /\ UNCHANGED <<fsVars, filterVars, out, listing, failed, heapVars, diskVars,
                   callVars, rootVars, lastFilter>>

\* One call of tree_walk whose only surviving child continues the line.
WalkCollapse ==
    /\ status = "walking" /\ stack # <<>>
    /\ LET f == Head(stack)
           kept == SelectKept(children(f.entity))
       IN  /\ Len(kept) = 1
           /\ listing' = children(f.entity)
           /\ SetHeap(HeapAfterFilter(Heap, children(f.entity)))
           /\ stack' = <<Frame(kept[1], CollapseAncestors(f.ancestors, f.entity),
                               f.prefix, f.indent, f.last_sibling)>> \o Tail(stack)
    /\ UNCHANGED <<fsVars, filterVars, out, status, failed, diskVars, callVars,
                   rootVars, lastFilter>>

\* One call of tree_walk that yields its line and goes on to its children.
WalkEmit ==
    /\ status = "walking" /\ stack # <<>>
    /\ LET f == Head(stack)
           kept == SelectKept(children(f.entity))
           rest == ChildFrames(kept, ExtendPrefix(f.prefix, f.indent, f.last_sibling))
                   \o Tail(stack)
       IN  /\ Len(kept) # 1
           /\ listing' = children(f.entity)
           /\ SetHeap(HeapAfterFilter(Heap, children(f.entity)))
           /\ out' = Append(out, Line(f))
           /\ stack' = rest
           /\ status' = IF rest = <<>> THEN "done" ELSE "walking"
    /\ UNCHANGED <<fsVars, filterVars, failed, diskVars, callVars, rootVars,
                   lastFilter>>

\* os.listdir or an os.lstat in Entity.children() raises (permission denied,
\* an entry vanished): nothing in tree_walk, tree or main catches it, so the
\* exception leaves every suspended generator.
WalkRaise ==
    /\ status = "walking" /\ stack # <<>>
    /\ S_ISDIR(Head(stack).entity)
    /\ failed' = <<Head(stack).entity>>
    /\ stack' = <<>>
    /\ status' = "error"
    /\ UNCHANGED <<fsVars, filterVars, out, listing, heapVars, diskVars, callVars,
                   rootVars, lastFilter>>

NextWalk == Tree \/ WalkCollapse \/ WalkEmit \/ WalkRaise

SpecWalk == InitWalk /\ [][NextWalk]_vars

----------------------------------------------------------------------------
(* Properties of the walk.                                                 *)

\* The children of n that survive the filter, in the order they are shown.
Kept(n) == SelectKept(children(n))

InSeq(x, s) == \E i \in 1..Len(s) : s[i] = x

RECURSIVE Visible(_)
\* n is reached by the walk: every entity on the way down survived.
Visible(n) == n = Root \/ (Visible(Parent(n)) /\ InSeq(n, Kept(Parent(n))))

RECURSIVE ChainHead(_)
\* The first directory of the chain of only-children that n ends.
ChainHead(n) ==
    IF n = Root \/ Len(Kept(Parent(n))) # 1 THEN n ELSE ChainHead(Parent(n))

RECURSIVE JoinSlash(_)
JoinSlash(names) ==
    IF Len(names) = 1 THEN names[1]
    ELSE names[1] \o <<"/">> \o JoinSlash(Tail(names))

\* The base names on the way from h down to e.
NamesFrom(h, e) ==
    [k \in 1..(Len(e) - Len(h) + 1) |-> basename(SubSeq(e, 1, Len(h) + k - 1))]

IsLastKept(n) == LET k == Kept(Parent(n)) IN k[Len(k)] = n

RECURSIVE ExpectedPrefix(_)
\* One segment per displayed line strictly between the root line and head h.
ExpectedPrefix(h) ==
    LET hp == ChainHead(Parent(h))
    IN  IF hp = Root THEN <<>>
        ELSE ExpectedPrefix(hp) \o <<IF IsLastKept(hp) THEN Blank ELSE Bar>>

\* C3: the list Entity.children() returns places every directory before every
\* non-directory, and orders each of the two groups by ascending base name.
C3_DirectoriesFirst ==
    \A i, j \in 1..Len(listing) :
        i < j =>
            /\ S_ISDIR(listing[j]) => S_ISDIR(listing[i])
            /\ S_ISDIR(listing[i]) = S_ISDIR(listing[j])
                   => StrLess(basename(listing[i]), basename(listing[j]))

\* C4: a chain of directories with exactly one surviving child each is
\* rendered as exactly one line, the names of the chain joined by "/"; a
\* directory with two or more surviving children gets a line of its own and
\* each of its surviving children starts a new line (a chain of its own).
C4_CollapseOneLine ==
    /\ \A i \in 1..Len(out) :
          LET e == out[i].entity
              h == ChainHead(e)
          IN  /\ Len(Kept(e)) # 1
              /\ out[i].text = JoinSlash(NamesFrom(h, e))
                                  \o (IF S_ISDIR(e) THEN <<"/">> ELSE <<>>)
              /\ \A j \in 1..Len(out) : out[j].entity = e => j = i
    /\ status = "done" =>
          \A n \in dirs \cup files :
              Visible(n) /\ Len(Kept(n)) # 1 => \E i \in 1..Len(out) : out[i].entity = n

\* A finished walk that printed a collapsed chain and also a directory with
\* two or more surviving children.
C4_Witness ==
    /\ status = "done"
    /\ \E i \in 1..Len(out) : Len(out[i].ancestors) >= 1 /\ out[i].entity \in files
    /\ \E j \in 1..Len(out) : Len(Kept(out[j].entity)) >= 2

\* C9: the root line has no prefix and no connector; any other line has one
\* segment per displayed ancestor strictly between the root line and it
\* (blank if that ancestor was the last surviving sibling, a bar otherwise),
\* then the elbow if its first directory is the last surviving child of its
\* parent and the tee otherwise.
C9_PrefixAndConnector ==
    \A i \in 1..Len(out) :
        LET h == ChainHead(out[i].entity)
        IN  IF h = Root
            THEN out[i].prefix = <<>> /\ out[i].indent = <<>>
            ELSE /\ out[i].indent = <<IF IsLastKept(h) THEN Elbow ELSE Tee>>
                 /\ out[i].prefix = ExpectedPrefix(h)

\* A finished walk with a line two levels below the root line, under a
\* directory that was not the last sibling.
C9_Witness ==
    /\ status = "done"
    /\ \E i \in 1..Len(out) : out[i].prefix = <<Bar>> /\ out[i].indent = <<Elbow>>
    /\ \E j \in 1..Len(out) : out[j].prefix = <<>> /\ out[j].indent = <<Tee>>

\* C7: when listing a directory fails during the walk, the walk goes on:
\* every surviving sibling of the failing entry still gets its line.
C7_WalkContinues ==
    status = "error" /\ failed[1] # Root =>
        \A k \in 1..Len(Kept(Parent(failed[1]))) :
            LET s == Kept(Parent(failed[1]))[k]
            IN  \E i \in 1..Len(out) : ChainHead(out[i].entity) = s

----------------------------------------------------------------------------
(* The rule engine: parse_rule_files, parse_rule_file and match on the     *)
(* GitignoreParser instances of one run.                                   *)

\* Rule files: "ab"; "!ab"; a comment, a blank line, "*" and "!a".
F_ab     == File("ok", << <<"a", "b">> >>)
F_not_ab == File("ok", << <<"!", "a", "b">> >>)
F_mixed  == File("ok", << <<"#", "a">>, <<>>, <<"*">>, <<"!", "a">> >>)

FileStates == {File("absent", <<>>), File("denied", <<>>), F_ab, F_not_ab, F_mixed}

\* The paths match is asked about.
MatchPaths ==
    { << <<"a">> >>, << <<"a", "b">> >>, << <<"a">>, <<"a", "b">> >>,
      << <<"a">>, <<"a">> >> }

NoFilterConfig ==
    /\ dirs = {Root} /\ files = {}
    /\ include = <<>> /\ exclude = <<>> /\ gitignore = None
    /\ lastFilter = NoFilter

InitIgnore ==
    /\ ruleFiles \in [RuleDirs -> FileStates]
    /\ defaultFile \in {File("absent", <<>>), File("denied", <<>>), F_ab}
    /\ HeapFresh /\ WalkIdle /\ RootIdle /\ NoFilterConfig

\* parser.parse_rule_files(base_dir, add_default_patterns)
ParseRuleFiles(p, base, dflt) ==
    /\ calls < MaxCalls
    /\ LET r == parse_rule_files(Heap, p, base, dflt)
       IN  /\ SetHeap(r.h)
           /\ lastCall' = Call("parse_rule_files", p, base, r.exc)
    /\ calls' = calls + 1
    /\ lastMatch' = NoMatch
    /\ lastFilter' = NoFilter
    /\ UNCHANGED <<fsVars, filterVars, walkVars, diskVars, rootVars>>

\* parser.parse_rule_file(rule_file): base_dir is the file's directory.
ParseRuleFile(p, file) ==
    /\ calls < MaxCalls
    /\ LET r == parse_rule_file(Heap, p, file, file)
       IN  /\ SetHeap(r.h)
           /\ lastCall' = Call("parse_rule_file", p, file, r.exc)
    /\ calls' = calls + 1
    /\ lastMatch' = NoMatch
    /\ lastFilter' = NoFilter
    /\ UNCHANGED <<fsVars, filterVars, walkVars, diskVars, rootVars>>

\* parser.match(path)
Match(p, path) ==
    /\ lastMatch' = Matched(p, path, match(Heap, p, path))
    /\ SetHeap(Compiled(Heap, p))
    /\ UNCHANGED <<fsVars, filterVars, walkVars, diskVars, rootVars, lastCall,
                   calls, lastFilter>>

NextIgnore ==
    \/ \E p \in ParserIds, base \in RuleDirs, dflt \in BOOLEAN :
           ParseRuleFiles(p, base, dflt)
    \/ \E p \in ParserIds, file \in RuleDirs : ParseRuleFile(p, file)
    \/ \E p \in ParserIds, path \in MatchPaths : Match(p, path)

SpecIgnore == InitIgnore /\ [][NextIgnore]_vars

\* The rules match uses on instance p.
IgnoreSet(p) == Range(ignore_rules(Heap, p))
NegateSet(p) == Range(negate_rules(Heap, p))

\* C2: match(P) is true iff P matches at least one pattern of the ignore set
\* and no pattern of the negate set.
C2_MatchIffIgnoredNotNegated ==
    lastMatch.p # None =>
        lastMatch.result =
            (/\ \E r \in IgnoreSet(lastMatch.p) : RuleMatches(r, lastMatch.path)
             /\ ~\E r \in NegateSet(lastMatch.p) : RuleMatches(r, lastMatch.path))

\* C8: a path matched by a negation pattern and by an ignore pattern declared
\* deeper than every negation pattern that matches it is reported as ignored.
C8_NearerIgnoreWins ==
    lastMatch.p # None =>
        LET P == lastMatch.path
            neg == {n \in NegateSet(lastMatch.p) : RuleMatches(n, P)}
            ign == {g \in IgnoreSet(lastMatch.p) : RuleMatches(g, P)}
        IN  (neg # {} /\ \E g \in ign : \A n \in neg : Len(g.base) > Len(n.base))
                => lastMatch.result

\* The rules get_rules_from_git_pattern makes of the lines of a readable file.
RulesOf(file, base) ==
    UNION {Range(get_rules_from_git_pattern(FileAt(file).lines[i], base)) :
              i \in 1..Len(FileAt(file).lines)}

\* C6: parse_rule_files lets no error out, and loads the rules of every
\* readable rule file it discovered, whatever other file cannot be read.
C6_UnreadableSkipped ==
    lastCall.op = "parse_rule_files" =>
        /\ lastCall.exc = None
        /\ \A d \in Range(rule_files(lastCall.arg)) :
               ruleFiles[d].state = "ok" => RulesOf(d, d) \subseteq added[lastCall.p]

\* C10: the rules match uses on an instance were all added through that
\* instance.
C10_InstancesIndependent ==
    \A p \in ParserIds : IgnoreSet(p) \cup NegateSet(p) \subseteq added[p]

----------------------------------------------------------------------------
(* The Path Filter: PathFilter.__call__ on the entities of a directory,    *)
(* with the ignore index make_ignore_parser built.                         *)

FilterTrees ==
    { [d |-> {Root, << <<"a">> >>, << <<"a">>, <<"a", "b">> >>},
       f |-> {<< <<"a", "b">> >>, << <<"a">>, <<"a">> >>}],
      [d |-> {Root, << <<"a", "b">> >>},
       f |-> {<< <<"a">> >>, << <<"a", "b">>, <<"a">> >>}] }

\* --include / --exclude: none, "a", "a*/" and "ab"; none, "ab", "a/".
IncludeChoices ==
    { <<>>, <<PathMatch(<<"a">>)>>,
      <<PathMatch(<<"a", "*", "/">>), PathMatch(<<"a", "b">>)>> }
ExcludeChoices ==
    { <<>>, <<PathMatch(<<"a", "b">>)>>, <<PathMatch(<<"a", "/">>)>> }

InitFilter ==
    /\ \E t \in FilterTrees : dirs = t.d /\ files = t.f
    /\ include \in IncludeChoices
    /\ exclude \in ExcludeChoices
    /\ gitignore \in {None, "p1"}
    /\ ruleFiles \in [RuleDirs -> {File("absent", <<>>), F_ab, F_mixed}]
    /\ defaultFile = File("absent", <<>>)
    /\ lastFilter = NoFilter
    /\ HeapFresh /\ WalkIdle /\ RootIdle

\* filter(entity)
FilterCall(e) ==
    /\ lastFilter' = Filtered(TRUE, e, PathFilter(include, exclude, gitignore, Heap, e))
    /\ SetHeap(PathFilterHeap(include, exclude, gitignore, Heap, e))
    /\ UNCHANGED <<fsVars, filterVars, walkVars, diskVars, rootVars, callVars>>

NextFilter ==
    \/ \E dflt \in BOOLEAN : gitignore # None /\ ParseRuleFiles(gitignore, Root, dflt)
    \/ \E e \in (dirs \cup files) \ {Root} : FilterCall(e)

SpecFilter == InitFilter /\ [][NextFilter]_vars

\* C1: PathFilter.__call__(E) is true iff (the include list is empty or an
\* include pattern matches E) and no exclude pattern matches E and (there is
\* no ignore index or it does not match E.path).
C1_RetainIff ==
    lastFilter.called =>
        LET e == lastFilter.entity
        IN  lastFilter.retain =
                (/\ include = <<>> \/ AnyMatch(include, e)
                 /\ ~AnyMatch(exclude, e)
                 /\ gitignore = None \/ ~match(Heap, gitignore, e))

\* A call on an entity an include pattern matches and the ignore index vetoes.
C1_Witness ==
    /\ lastFilter.called
    /\ include # <<>> /\ AnyMatch(include, lastFilter.entity)
    /\ ~AnyMatch(exclude, lastFilter.entity)
    /\ gitignore # None /\ match(Heap, gitignore, lastFilter.entity)
    /\ ~lastFilter.retain

----------------------------------------------------------------------------
(* Root discovery: find_git_toplevel and make_ignore_parser.               *)
(*                                                                         *)
(* Here a path is the string main passes.  The directories are "/", "/a",  *)
(* "/a/a", ...: a directory is named by its depth below "/".               *)

RootChars == {"/", ".", "a"}

PathStrings == UNION {[1..n -> RootChars] : n \in 0..MaxPathLen}

\* The depth reached from depth d by one path component.
StepInto(comp, d) ==
    IF comp = <<>> \/ comp = <<".">> THEN d
    ELSE IF comp = <<".", ".">> THEN (IF d = 0 THEN 0 ELSE d - 1)
    ELSE d + 1

RECURSIVE ResolveFrom(_, _, _)
\* Path resolution: the directory the rest of the string s leads to from
\* depth d, comp being the component read so far.
ResolveFrom(s, comp, d) ==
    IF s = <<>> THEN StepInto(comp, d)
    ELSE IF Head(s) = "/" THEN ResolveFrom(Tail(s), <<>>, StepInto(comp, d))
    ELSE ResolveFrom(Tail(s), Append(comp, Head(s)), d)

Resolve(s) == ResolveFrom(s, <<>>, IF s # <<>> /\ Head(s) = "/" THEN 0 ELSE cwd)

RECURSIVE ComponentsOk(_, _)
\* Every component of s is "", ".", ".." or "a": s names a directory.
ComponentsOk(s, comp) ==
    LET ok == comp \in {<<>>, <<".">>, <<".", ".">>, <<"a">>}
    IN  IF s = <<>> THEN ok
        ELSE IF Head(s) = "/" THEN ok /\ ComponentsOk(Tail(s), <<>>)
        ELSE ComponentsOk(Tail(s), Append(comp, Head(s)))

\* The directories main can pass: path itself, or os.path.dirname(path).
StartDirs == {s \in PathStrings : ComponentsOk(s, <<>>)}

\* s.rfind("/") + 1
LastSlash(s) ==
    IF \E i \in 1..Len(s) : s[i] = "/"
    THEN CHOOSE i \in 1..Len(s) : s[i] = "/" /\ \A j \in (i + 1)..Len(s) : s[j] # "/"
    ELSE 0

\* posixpath.dirname
dirname(s) ==
    LET head == SubSeq(s, 1, LastSlash(s))
    IN  IF head # <<>> /\ (\E i \in 1..Len(head) : head[i] # "/")
        THEN rstrip(head, "/") ELSE head

\* os.path.exists(os.path.join(base_dir, ".git"))
HasGit(s) == Resolve(s) \in markers

\* Python's recursion limit, scaled to the model: a search that ends needs at
\* most one call per character of its start string, and one more.
RecursionLimit == MaxPathLen + 2

InitRoot ==
    /\ cwd \in {0, 1}
    /\ markers \in SUBSET (0..MaxPathLen)
    /\ start_dir = <<>> /\ cur_base_dir = <<>> /\ call_depth = 0
    /\ toplevel = Search("idle", <<>>)
    /\ HeapFresh /\ WalkIdle /\ DiskEmpty /\ NoFilterConfig

\* make_ignore_parser(base_dir) calls find_git_toplevel(base_dir).
FindStart(s) ==
    /\ toplevel.state = "idle"
    /\ start_dir' = s
    /\ cur_base_dir' = s
    /\ call_depth' = 1
    /\ toplevel' = Search("searching", <<>>)
    /\ UNCHANGED <<cwd, markers, fsVars, filterVars, walkVars, heapVars, diskVars,
                   callVars, lastFilter>>

\* if os.path.exists(os.path.join(base_dir, ".git")): return base_dir
FindReturnDir ==
    /\ toplevel.state = "searching"
    /\ HasGit(cur_base_dir)
    /\ toplevel' = Search("found", cur_base_dir)
    /\ call_depth' = 0
    /\ UNCHANGED <<cwd, markers, start_dir, cur_base_dir, fsVars, filterVars,
                   walkVars, heapVars, diskVars, callVars, lastFilter>>

\* if base_dir == "/": return None
FindReturnNone ==
    /\ toplevel.state = "searching"
    /\ ~HasGit(cur_base_dir)
    /\ cur_base_dir = <<"/">>
    /\ toplevel' = Search("none", <<>>)
    /\ call_depth' = 0
    /\ UNCHANGED <<cwd, markers, start_dir, cur_base_dir, fsVars, filterVars,
                   walkVars, heapVars, diskVars, callVars, lastFilter>>

\* return find_git_toplevel(os.path.dirname(base_dir))
FindRecurse ==
    /\ toplevel.state = "searching"
    /\ ~HasGit(cur_base_dir)
    /\ cur_base_dir # <<"/">>
    /\ call_depth < RecursionLimit
    /\ cur_base_dir' = dirname(cur_base_dir)
    /\ call_depth' = call_depth + 1
    /\ UNCHANGED <<cwd, markers, start_dir, toplevel, fsVars, filterVars, walkVars,
                   heapVars, diskVars, callVars, lastFilter>>

\* The same call with the stack full: Python raises RecursionError, which
\* nothing catches.
FindOverflow ==
    /\ toplevel.state = "searching"
    /\ ~HasGit(cur_base_dir)
    /\ cur_base_dir # <<"/">>
    /\ call_depth = RecursionLimit
    /\ toplevel' = Search("RecursionError", <<>>)
    /\ call_depth' = 0
    /\ UNCHANGED <<cwd, markers, start_dir, cur_base_dir, fsVars, filterVars,
                   walkVars, heapVars, diskVars, callVars, lastFilter>>

\* The rest of make_ignore_parser: if not top: return None; else a parser
\* that has parsed the rule files below top.  main hands the result to
\* PathFilter.
MakeIgnoreParser ==
    /\ toplevel.state \in {"found", "none"}
    /\ IF toplevel.state = "none" \/ toplevel.value = <<>>
       THEN gitignore' = None /\ UNCHANGED heapVars
       ELSE /\ gitignore' = "p1"
            /\ SetHeap(parse_rule_files(Heap, "p1", Root, TRUE).h)
    /\ toplevel' = Search("made", toplevel.value)
    /\ UNCHANGED <<cwd, markers, start_dir, cur_base_dir, call_depth, fsVars,
                   include, exclude, walkVars, diskVars, callVars, lastFilter>>

NextRoot ==
    \/ \E s \in StartDirs : FindStart(s)
    \/ FindReturnDir
    \/ FindReturnNone
    \/ FindRecurse
    \/ FindOverflow
    \/ MakeIgnoreParser

SpecRoot == InitRoot /\ [][NextRoot]_vars

\* Neither the start directory nor any parent of it holds a .git.
NoMarkerAbove == \A d \in 0..Resolve(start_dir) : d \notin markers

\* C5: from a start directory with no version-control marker at or above it,
\* root discovery ends, reports no root, and make_ignore_parser yields no
\* ignore index.
C5_NoRootNoIndex ==
    toplevel.state \notin {"idle", "searching"} /\ NoMarkerAbove =>
        \/ toplevel.state = "none"
        \/ toplevel.state = "made" /\ gitignore = None

====
